---- MODULE Spec2Model ----
(***************************************************************************)
(* WeavelCallbackHandler (langchain_community/callbacks/weavel_callback.py) *)
(* as a state machine: one action per constructor / lifecycle hook, the    *)
(* outbound HTTP POSTs recorded in the order they are issued.              *)
(*                                                                         *)
(* Python values: None is the string None, an attribute that was never     *)
(* assigned is Unset.  The "timestamp" field of a request body is the wall *)
(* clock and is left out of the request records, as is the Authorization  *)
(* header (the WEAVEL_API_KEY of the environment).  http, last, ncalls and *)
(* last_tool_start are history variables: what was sent, the most recent   *)
(* call with the state it started in, and the most recent tool-start.      *)
(***************************************************************************)
EXTENDS Integers, Sequences, FiniteSets, TLC

VARIABLES phase, user_id, trace_id, user_message_id, assistant_message_id,
          saved_user_messages, saved_assistant_messages,
          user_message, tool_name, tool_inputs,
          http, last, last_tool_start, ncalls,
          inflight, overlapped

vars == <<phase, user_id, trace_id, user_message_id, assistant_message_id,
          saved_user_messages, saved_assistant_messages,
          user_message, tool_name, tool_inputs, http, last,
          last_tool_start, ncalls, inflight, overlapped>>

config == <<phase, user_id, trace_id, user_message_id, assistant_message_id>>

(* the hook invocations under way in each thread of the host, and which    *)
(* hooks have had two invocations under way at once; both stay as they are *)
(* while the host calls the hooks one after the other                      *)
conc == <<inflight, overlapped>>

(* ---------------------------- bounds ----------------------------------- *)
MaxCalls == 3
MaxConcurrentCalls == 2
MaxTurnLen == 2
MaxBatches == 2

(* ---------------------------- values ----------------------------------- *)
None == "<None>"
Unset == "<unset>"

Threads == {"T1", "T2"}
Idle == [pc |-> "idle"]

WEAVEL_DEFAULT_API_URL == "https://api.weavel.ai"
TraceDataUrl == WEAVEL_DEFAULT_API_URL \o "/capture/trace_data"
TrackEventUrl == WEAVEL_DEFAULT_API_URL \o "/capture/track_event"

Range(s) == {s[i] : i \in 1..Len(s)}
SeqsUpTo(S, n) == UNION {[1..k -> S] : k \in 0..n}
IsPrefix(s, t) == Len(s) <= Len(t) /\ SubSeq(t, 1, Len(s)) = s

(* message.content is a str, or a list of parts (here: a one-element list) *)
StrContent(s) == [t |-> "str", s |-> s]
ListContent(s) == [t |-> "list", s |-> s]

(* str(message.content): a str is itself, a list is rendered as its repr *)
PyStr(c) == IF c.t = "str" THEN c.s ELSE "['" \o c.s \o "']"

Human(c) == [type |-> "human", content |-> c]
AI(c) == [type |-> "ai", content |-> c]

(* ---------------------------- inputs ----------------------------------- *)
Ids == {None, "", "u1"}
TraceIds == {None, "", "t1"}
UserMessageIds == {"um1"}
AssistantMessageIds == {"am1"}

Msgs == {Human(StrContent("hello")), Human(ListContent("hello")),
         AI(StrContent("hi there"))}
Turns == SeqsUpTo(Msgs, MaxTurnLen)
LaterTurn == <<Human(StrContent("hello"))>>
ChatInputs == {<<>>} \cup {<<t>> : t \in Turns}
                     \cup {<<t, LaterTurn>> : t \in SeqsUpTo(Msgs, 1)}

Batches == {<<>>, <<"hi there">>, <<"hello", "hi there">>}
LlmInputs == SeqsUpTo(Batches, MaxBatches)

Descriptors == {[id |-> "tool"], [id |-> "tool", name |-> ""],
                [id |-> "tool", name |-> "calc"],
                [id |-> "tool", name |-> "search"]}
ToolInputs == {None, "x=1"}
ToolOutputs == {"4", "none found"}

(* the transport: the raiseAt-th POST of a call raises (0: none does),     *)
(* every other POST returns a response                                     *)
Nets(n) == [raiseAt : 0..n]

(* ------------------------- requests.post ------------------------------- *)
(* "returned": a Response came back, of whatever status (no hook reads it); *)
(* "raised": requests.post raised (connection error, unserialisable body)   *)
PostResult(net, k) == IF net.raiseAt = k THEN "raised" ELSE "returned"

TraceData(role, content, id, net, k) ==
    [url |-> TraceDataUrl, user_id |-> user_id, trace_id |-> trace_id,
     role |-> role, content |-> content, trace_data_id |-> id,
     result |-> PostResult(net, k)]

TrackEvent(name, inputs, output, net, k) ==
    [url |-> TrackEventUrl, user_id |-> user_id, trace_id |-> trace_id,
     name |-> name, properties |-> [inputs |-> inputs, output |-> output],
     result |-> PostResult(net, k)]

(* ---------------------------- __init__ --------------------------------- *)
Falsy(x) == x = None \/ x = ""

(* variant: both ids must be missing for the error *)
ConstructionFailsAnd(uid, tid) == Falsy(uid) /\ Falsy(tid)

ConstructionFails(uid, tid) == Falsy(uid) \/ Falsy(tid)

Init ==
    /\ phase = "new"
    /\ user_id = Unset /\ trace_id = Unset
    /\ user_message_id = Unset /\ assistant_message_id = Unset
    /\ saved_user_messages = Unset /\ saved_assistant_messages = Unset
    /\ user_message = Unset /\ tool_name = Unset /\ tool_inputs = Unset
    /\ http = <<>>
    /\ last = [hook |-> "none"]
    /\ last_tool_start = [called |-> FALSE]
    /\ ncalls = 0
    /\ inflight = [t \in Threads |-> Idle]
    /\ overlapped = {}

Construct(uid, tid, umid, amid) ==
    /\ phase = "new"
    /\ user_id' = uid /\ trace_id' = tid
    /\ user_message_id' = umid /\ assistant_message_id' = amid
    /\ phase' = IF ConstructionFails(uid, tid) THEN "failed" ELSE "ready"
    /\ last' = [hook |-> "__init__", arg |-> <<uid, tid>>,
                propagated |-> IF ConstructionFails(uid, tid)
                               THEN "ValueError" ELSE "none"]
    /\ IF ConstructionFails(uid, tid)
       THEN UNCHANGED <<saved_user_messages, saved_assistant_messages>>
       ELSE /\ saved_user_messages' = <<>>
            /\ saved_assistant_messages' = <<>>
    /\ UNCHANGED <<user_message, tool_name, tool_inputs, http,
                   last_tool_start, ncalls, conc>>

(* ------------------------ try / except Exception ----------------------- *)
(* variant: only the exception of requests.post is caught *)
CaughtOnlyTransport(exc) == exc = "RequestException"

Caught(exc) == exc /= "none"

Pre == [su |-> saved_user_messages, sa |-> saved_assistant_messages,
        tn |-> tool_name, ti |-> tool_inputs, um |-> user_message,
        nhttp |-> Len(http)]

Record(hook, arg, net, exc) ==
    [hook |-> hook, arg |-> arg, net |-> net, pre |-> Pre,
     logged |-> IF Caught(exc) THEN exc ELSE "none",
     propagated |-> IF Caught(exc) THEN "none" ELSE exc]

(* ----------------------- get_last_user_message ------------------------- *)
Reversed(s) == [i \in 1..Len(s) |-> s[Len(s) + 1 - i]]

(* variant: the message type is not looked at *)
FirstAny(ms) ==
    IF ms = <<>> THEN None ELSE PyStr(Head(ms).content)

RECURSIVE FirstHuman(_)
FirstHuman(ms) ==
    IF ms = <<>> THEN None
    ELSE IF Head(ms).type = "human" THEN PyStr(Head(ms).content)
    ELSE FirstHuman(Tail(ms))

(* variant: the messages are scanned from the front *)
get_first_user_message(messages) == FirstHuman(messages)

get_last_user_message(messages) == FirstHuman(Reversed(messages))

(* the transport of a call, as far as the call used it *)
UsedNet(net, posts) ==
    IF posts = <<>> THEN None
    ELSE [raiseAt |-> IF net.raiseAt <= Len(posts) THEN net.raiseAt ELSE 0]

(* ------------------------ on_chat_model_start -------------------------- *)
(* variant: the de-duplication check never hits *)
NeverSaved(m, saved) == FALSE

IsSaved(m, saved) == m \in Range(saved)

(* variant: the content is recorded before the POST *)
ChatBodyAppendFirst(messages, net) ==
    IF messages = <<>>
    THEN [exc |-> "IndexError", um |-> user_message,
          posts |-> <<>>, saved |-> saved_user_messages]
    ELSE LET um == get_last_user_message(messages[1]) IN
         IF um = None \/ IsSaved(um, saved_user_messages)
         THEN [exc |-> "none", um |-> um,
               posts |-> <<>>, saved |-> saved_user_messages]
         ELSE [exc |-> IF PostResult(net, 1) = "raised"
                       THEN "RequestException" ELSE "none",
               um |-> um,
               posts |-> <<TraceData("user", um, user_message_id, net, 1)>>,
               saved |-> Append(saved_user_messages, um)]

(* variant: the sequence is replaced by the content just sent *)
ChatBodyKeepsLast(messages, net) ==
    IF messages = <<>>
    THEN [exc |-> "IndexError", um |-> user_message,
          posts |-> <<>>, saved |-> saved_user_messages]
    ELSE LET um == get_last_user_message(messages[1]) IN
         IF um = None \/ IsSaved(um, saved_user_messages)
         THEN [exc |-> "none", um |-> um,
               posts |-> <<>>, saved |-> saved_user_messages]
         ELSE LET req == TraceData("user", um, user_message_id, net, 1) IN
              IF req.result = "raised"
              THEN [exc |-> "RequestException", um |-> um,
                    posts |-> <<req>>, saved |-> saved_user_messages]
              ELSE [exc |-> "none", um |-> um,
                    posts |-> <<req>>, saved |-> <<um>>]

(* variant: one de-duplication check over the messages of both roles *)
ChatBodySharedDedup(messages, net) ==
    IF messages = <<>>
    THEN [exc |-> "IndexError", um |-> user_message,
          posts |-> <<>>, saved |-> saved_user_messages]
    ELSE LET um == get_last_user_message(messages[1]) IN
         IF \/ um = None
            \/ IsSaved(um, saved_user_messages \o saved_assistant_messages)
         THEN [exc |-> "none", um |-> um,
               posts |-> <<>>, saved |-> saved_user_messages]
         ELSE LET req == TraceData("user", um, user_message_id, net, 1) IN
              IF req.result = "raised"
              THEN [exc |-> "RequestException", um |-> um,
                    posts |-> <<req>>, saved |-> saved_user_messages]
              ELSE [exc |-> "none", um |-> um,
                    posts |-> <<req>>,
                    saved |-> Append(saved_user_messages, um)]

ChatBody(messages, net) ==
    IF messages = <<>>
    THEN [exc |-> "IndexError", um |-> user_message,
          posts |-> <<>>, saved |-> saved_user_messages]
    ELSE LET um == get_last_user_message(messages[1]) IN
         IF um = None
         THEN [exc |-> "none", um |-> um,
               posts |-> <<>>, saved |-> saved_user_messages]
         ELSE IF IsSaved(um, saved_user_messages)
         THEN [exc |-> "none", um |-> um,
               posts |-> <<>>, saved |-> saved_user_messages]
         ELSE LET req == TraceData("user", um, user_message_id, net, 1) IN
              IF req.result = "raised"
              THEN [exc |-> "RequestException", um |-> um,
                    posts |-> <<req>>, saved |-> saved_user_messages]
              ELSE [exc |-> "none", um |-> um,
                    posts |-> <<req>>,
                    saved |-> Append(saved_user_messages, um)]

on_chat_model_start(messages, net) ==
    /\ phase = "ready" /\ ncalls < MaxCalls
    /\ LET r == ChatBody(messages, net) IN
        /\ user_message' = r.um
        /\ saved_user_messages' = r.saved
        /\ http' = http \o r.posts
        /\ last' = Record("on_chat_model_start", messages,
                          UsedNet(net, r.posts), r.exc)
    /\ ncalls' = ncalls + 1
    /\ UNCHANGED <<config, saved_assistant_messages, tool_name, tool_inputs,
                   last_tool_start, conc>>

(* ----------------------------- on_llm_end ------------------------------ *)
(* variant: a recorded text skips its batch only *)
RECURSIVE LlmLoopContinue(_, _, _, _, _)
LlmLoopContinue(gens, i, saved, posts, net) ==
    IF i > Len(gens) THEN [exc |-> "none", posts |-> posts, saved |-> saved]
    ELSE IF gens[i] = <<>>
    THEN [exc |-> "IndexError", posts |-> posts, saved |-> saved]
    ELSE IF IsSaved(gens[i][1], saved)
    THEN LlmLoopContinue(gens, i + 1, saved, posts, net)
    ELSE LET req == TraceData("assistant", gens[i][1], assistant_message_id,
                              net, Len(posts) + 1) IN
         IF req.result = "raised"
         THEN [exc |-> "RequestException", posts |-> Append(posts, req),
               saved |-> saved]
         ELSE LlmLoopContinue(gens, i + 1, Append(saved, gens[i][1]),
                              Append(posts, req), net)

(* variant: a POST that raised is sent once more *)
RECURSIVE LlmLoopRetry(_, _, _, _, _)
LlmLoopRetry(gens, i, saved, posts, net) ==
    IF i > Len(gens) THEN [exc |-> "none", posts |-> posts, saved |-> saved]
    ELSE IF gens[i] = <<>>
    THEN [exc |-> "IndexError", posts |-> posts, saved |-> saved]
    ELSE IF IsSaved(gens[i][1], saved)
    THEN [exc |-> "none", posts |-> posts, saved |-> saved]
    ELSE LET req == TraceData("assistant", gens[i][1], assistant_message_id,
                              net, Len(posts) + 1) IN
         IF req.result = "raised"
         THEN LET again == TraceData("assistant", gens[i][1],
                                     assistant_message_id, net,
                                     Len(posts) + 2) IN
              [exc |-> "none", posts |-> posts \o <<req, again>>,
               saved |-> Append(saved, gens[i][1])]
         ELSE LlmLoopRetry(gens, i + 1, Append(saved, gens[i][1]),
                           Append(posts, req), net)

(* variant: the last candidate of a batch is read in place of the first *)
RECURSIVE LlmLoopLastCandidate(_, _, _, _, _)
LlmLoopLastCandidate(gens, i, saved, posts, net) ==
    IF i > Len(gens) THEN [exc |-> "none", posts |-> posts, saved |-> saved]
    ELSE IF gens[i] = <<>>
    THEN [exc |-> "IndexError", posts |-> posts, saved |-> saved]
    ELSE LET text == gens[i][Len(gens[i])] IN
         IF IsSaved(text, saved)
         THEN [exc |-> "none", posts |-> posts, saved |-> saved]
         ELSE LET req == TraceData("assistant", text, assistant_message_id,
                                   net, Len(posts) + 1) IN
              IF req.result = "raised"
              THEN [exc |-> "RequestException", posts |-> Append(posts, req),
                    saved |-> saved]
              ELSE LlmLoopLastCandidate(gens, i + 1, Append(saved, text),
                                        Append(posts, req), net)

(* variant: the text is recorded although its POST raised *)
RECURSIVE LlmLoopRecordsRaised(_, _, _, _, _)
LlmLoopRecordsRaised(gens, i, saved, posts, net) ==
    IF i > Len(gens) THEN [exc |-> "none", posts |-> posts, saved |-> saved]
    ELSE IF gens[i] = <<>>
    THEN [exc |-> "IndexError", posts |-> posts, saved |-> saved]
    ELSE IF IsSaved(gens[i][1], saved)
    THEN [exc |-> "none", posts |-> posts, saved |-> saved]
    ELSE LET req == TraceData("assistant", gens[i][1], assistant_message_id,
                              net, Len(posts) + 1) IN
         IF req.result = "raised"
         THEN [exc |-> "RequestException", posts |-> Append(posts, req),
               saved |-> Append(saved, gens[i][1])]
         ELSE LlmLoopRecordsRaised(gens, i + 1, Append(saved, gens[i][1]),
                                   Append(posts, req), net)

RECURSIVE LlmLoop(_, _, _, _, _)
LlmLoop(gens, i, saved, posts, net) ==
    IF i > Len(gens) THEN [exc |-> "none", posts |-> posts, saved |-> saved]
    ELSE IF gens[i] = <<>>
    THEN [exc |-> "IndexError", posts |-> posts, saved |-> saved]
    ELSE IF IsSaved(gens[i][1], saved)
    THEN [exc |-> "none", posts |-> posts, saved |-> saved]
    ELSE LET req == TraceData("assistant", gens[i][1], assistant_message_id,
                              net, Len(posts) + 1) IN
         IF req.result = "raised"
         THEN [exc |-> "RequestException", posts |-> Append(posts, req),
               saved |-> saved]
         ELSE LlmLoop(gens, i + 1, Append(saved, gens[i][1]),
                      Append(posts, req), net)

on_llm_end(gens, net) ==
    /\ phase = "ready" /\ ncalls < MaxCalls
    /\ LET r == LlmLoop(gens, 1, saved_assistant_messages, <<>>, net) IN
        /\ saved_assistant_messages' = r.saved
        /\ http' = http \o r.posts
        /\ last' = Record("on_llm_end", gens, UsedNet(net, r.posts), r.exc)
    /\ ncalls' = ncalls + 1
    /\ UNCHANGED <<config, saved_user_messages, user_message,
                   tool_name, tool_inputs, last_tool_start, conc>>

(* ---------------------------- on_tool_start ---------------------------- *)
(* serialized.get("name", None) *)
(* variant: the descriptor's "id" is read in place of the key *)
DictGetId(d, key, default) == IF "id" \in DOMAIN d THEN d["id"] ELSE default

DictGet(d, key, default) == IF key \in DOMAIN d THEN d[key] ELSE default

on_tool_start(serialized, inputs) ==
    /\ phase = "ready" /\ ncalls < MaxCalls
    /\ tool_name' = DictGet(serialized, "name", None)
    /\ tool_inputs' = inputs
    /\ last' = Record("on_tool_start", <<serialized, inputs>>, None, "none")
    /\ last_tool_start' = [called |-> TRUE, serialized |-> serialized,
                           inputs |-> inputs]
    /\ ncalls' = ncalls + 1
    /\ UNCHANGED <<config, saved_user_messages, saved_assistant_messages,
                   user_message, http, conc>>

(* ----------------------------- on_tool_end ----------------------------- *)
(* declared async: the action is the coroutine's body run to completion,  *)
(* which is what the host does with the coroutine the call returns;       *)
(* r.tn is the pending name after the body, which the body never assigns  *)
(* variant: no check of the name *)
ToolEndBodyNoCheck(output, net) ==
    IF tool_name = Unset
    THEN [exc |-> "AttributeError", posts |-> <<>>, tn |-> tool_name]
    ELSE LET req == TrackEvent(tool_name, tool_inputs, output, net, 1) IN
         [exc |-> IF req.result = "raised" THEN "RequestException"
                  ELSE "none",
          posts |-> <<req>>, tn |-> tool_name]

(* variant: the pending name is cleared after the POST *)
ToolEndBodyClears(output, net) ==
    IF tool_name = Unset
    THEN [exc |-> "AttributeError", posts |-> <<>>, tn |-> tool_name]
    ELSE IF tool_name = None
    THEN [exc |-> "ValueError", posts |-> <<>>, tn |-> tool_name]
    ELSE LET req == TrackEvent(tool_name, tool_inputs, output, net, 1) IN
         [exc |-> IF req.result = "raised" THEN "RequestException"
                  ELSE "none",
          posts |-> <<req>>, tn |-> None]

ToolEndBody(output, net) ==
    IF tool_name = Unset
    THEN [exc |-> "AttributeError", posts |-> <<>>, tn |-> tool_name]
    ELSE IF tool_name = None
    THEN [exc |-> "ValueError", posts |-> <<>>, tn |-> tool_name]
    ELSE LET req == TrackEvent(tool_name, tool_inputs, output, net, 1) IN
         [exc |-> IF req.result = "raised" THEN "RequestException"
                  ELSE "none",
          posts |-> <<req>>, tn |-> tool_name]

on_tool_end(output, net) ==
    /\ phase = "ready" /\ ncalls < MaxCalls
    /\ LET r == ToolEndBody(output, net) IN
        /\ tool_name' = r.tn
        /\ http' = http \o r.posts
        /\ last' = Record("on_tool_end", output, UsedNet(net, r.posts), r.exc)
    /\ ncalls' = ncalls + 1
    /\ UNCHANGED <<config, saved_user_messages, saved_assistant_messages,
                   user_message, tool_inputs, last_tool_start, conc>>

(* ------------------------------ behaviour ------------------------------ *)
Next ==
    \/ \E uid \in Ids, tid \in TraceIds, umid \in UserMessageIds,
          amid \in AssistantMessageIds : Construct(uid, tid, umid, amid)
    \/ \E messages \in ChatInputs, net \in Nets(1) :
          on_chat_model_start(messages, net)
    \/ \E gens \in LlmInputs, net \in Nets(MaxBatches) : on_llm_end(gens, net)
    \/ \E serialized \in Descriptors, inputs \in ToolInputs :
          on_tool_start(serialized, inputs)
    \/ \E output \in ToolOutputs, net \in Nets(1) : on_tool_end(output, net)

Spec == Init /\ [][Next]_vars

(* ------------------- hooks called from several threads ------------------ *)
(* The host calls on_chat_model_start and on_llm_end of one constructed    *)
(* handler from its threads; an invocation runs statement by statement     *)
(* (pc names the line it is at) and the threads interleave between         *)
(* statements.  self.user_message is an attribute, shared by the threads;  *)
(* the arguments and the loop variable are local to the invocation.        *)
ConcInit ==
    /\ phase = "ready"
    /\ user_id = "u1" /\ trace_id = "t1"
    /\ user_message_id = "um1" /\ assistant_message_id = "am1"
    /\ saved_user_messages = <<>> /\ saved_assistant_messages = <<>>
    /\ user_message = Unset /\ tool_name = Unset /\ tool_inputs = Unset
    /\ http = <<>>
    /\ last = [hook |-> "none"]
    /\ last_tool_start = [called |-> FALSE]
    /\ ncalls = 0
    /\ inflight = [t \in Threads |-> Idle]
    /\ overlapped = {}

Running(hook) == {t \in Threads : inflight[t].pc /= "idle"
                                    /\ inflight[t].hook = hook}

Enter(t, hook, frame) ==
    /\ inflight[t] = Idle
    /\ ncalls < MaxConcurrentCalls
    /\ ncalls' = ncalls + 1
    /\ inflight' = [inflight EXCEPT ![t] = frame]
    /\ overlapped' = IF Running(hook) /= {} THEN overlapped \cup {hook}
                     ELSE overlapped

Goto(t, pc) == inflight' = [inflight EXCEPT ![t].pc = pc]
Return(t) == inflight' = [inflight EXCEPT ![t] = Idle]
At(t, hook, pc) == inflight[t].pc = pc /\ inflight[t].hook = hook

shared == <<config, tool_name, tool_inputs, last, last_tool_start>>

ChatEnter(t, messages) ==
    /\ Enter(t, "on_chat_model_start",
             [pc |-> "83", hook |-> "on_chat_model_start",
              messages |-> messages])
    /\ UNCHANGED <<shared, saved_user_messages, saved_assistant_messages,
                   user_message, http>>

(* line 83: IndexError on an empty list, caught at line 105 *)
Chat83(t) ==
    /\ At(t, "on_chat_model_start", "83")
    /\ IF inflight[t].messages = <<>>
       THEN Return(t) /\ UNCHANGED user_message
       ELSE /\ user_message' =
                  get_last_user_message(inflight[t].messages[1])
            /\ inflight' = [inflight EXCEPT ![t] =
                  [pc |-> "85", hook |-> "on_chat_model_start"]]
    /\ UNCHANGED <<shared, saved_user_messages, saved_assistant_messages,
                   http, ncalls, overlapped>>

Chat85(t) ==
    /\ At(t, "on_chat_model_start", "85")
    /\ IF user_message = None THEN Return(t) ELSE Goto(t, "87")
    /\ UNCHANGED <<shared, saved_user_messages, saved_assistant_messages,
                   user_message, http, ncalls, overlapped>>

Chat87(t) ==
    /\ At(t, "on_chat_model_start", "87")
    /\ IF IsSaved(user_message, saved_user_messages)
       THEN Return(t) ELSE Goto(t, "90")
    /\ UNCHANGED <<shared, saved_user_messages, saved_assistant_messages,
                   user_message, http, ncalls, overlapped>>

Chat90(t, net) ==
    /\ At(t, "on_chat_model_start", "90")
    /\ LET req == TraceData("user", user_message, user_message_id, net, 1)
       IN  /\ http' = Append(http, req)
           /\ IF req.result = "raised" THEN Return(t) ELSE Goto(t, "103")
    /\ UNCHANGED <<shared, saved_user_messages, saved_assistant_messages,
                   user_message, ncalls, overlapped>>

Chat103(t) ==
    /\ At(t, "on_chat_model_start", "103")
    /\ saved_user_messages' = Append(saved_user_messages, user_message)
    /\ Return(t)
    /\ UNCHANGED <<shared, saved_assistant_messages, user_message, http,
                   ncalls, overlapped>>

LlmEnter(t, gens) ==
    /\ Enter(t, "on_llm_end",
             [pc |-> "118", hook |-> "on_llm_end", gens |-> gens, i |-> 1])
    /\ UNCHANGED <<shared, saved_user_messages, saved_assistant_messages,
                   user_message, http>>

(* lines 118-120: the next batch, IndexError on an empty one, the check *)
Llm118(t) ==
    /\ At(t, "on_llm_end", "118")
    /\ LET gens == inflight[t].gens
           i == inflight[t].i
       IN  IF i > Len(gens) THEN Return(t)
           ELSE IF gens[i] = <<>> THEN Return(t)
           ELSE IF IsSaved(gens[i][1], saved_assistant_messages)
           THEN Return(t)
           ELSE Goto(t, "122")
    /\ UNCHANGED <<shared, saved_user_messages, saved_assistant_messages,
                   user_message, http, ncalls, overlapped>>

Llm122(t, net) ==
    /\ At(t, "on_llm_end", "122")
    /\ LET req == TraceData("assistant",
                            inflight[t].gens[inflight[t].i][1],
                            assistant_message_id, net, 1)
       IN  /\ http' = Append(http, req)
           /\ IF req.result = "raised" THEN Return(t) ELSE Goto(t, "135")
    /\ UNCHANGED <<shared, saved_user_messages, saved_assistant_messages,
                   user_message, ncalls, overlapped>>

Llm135(t) ==
    /\ At(t, "on_llm_end", "135")
    /\ saved_assistant_messages' =
          Append(saved_assistant_messages,
                 inflight[t].gens[inflight[t].i][1])
    /\ inflight' = [inflight EXCEPT ![t].pc = "118",
                                    ![t].i = inflight[t].i + 1]
    /\ UNCHANGED <<shared, saved_user_messages, user_message, http,
                   ncalls, overlapped>>

ConcNext ==
    \/ \E t \in Threads, messages \in ChatInputs : ChatEnter(t, messages)
    \/ \E t \in Threads : Chat83(t)
    \/ \E t \in Threads : Chat85(t)
    \/ \E t \in Threads : Chat87(t)
    \/ \E t \in Threads, net \in Nets(1) : Chat90(t, net)
    \/ \E t \in Threads : Chat103(t)
    \/ \E t \in Threads, gens \in LlmInputs : LlmEnter(t, gens)
    \/ \E t \in Threads : Llm118(t)
    \/ \E t \in Threads, net \in Nets(1) : Llm122(t, net)
    \/ \E t \in Threads : Llm135(t)

SpecConc == ConcInit /\ [][ConcNext]_vars

(* ------------------------------ history -------------------------------- *)
(* the requests issued by the most recent hook call *)
LastPosts == SubSeq(http, last.pre.nhttp + 1, Len(http))

(* the requests issued before the most recent hook call *)
EarlierPosts == SubSeq(http, 1, last.pre.nhttp)

IsHook == last.hook \in {"on_chat_model_start", "on_llm_end",
                         "on_tool_start", "on_tool_end"}

IsChatStart == last.hook = "on_chat_model_start"
IsLlmEnd == last.hook = "on_llm_end"
IsToolStart == last.hook = "on_tool_start"
IsToolEnd == last.hook = "on_tool_end"

(* the contents of the trace_data POSTs of a role, among reqs, that returned *)
ReturnedContents(reqs, role) ==
    {reqs[i].content : i \in {k \in 1..Len(reqs) :
        /\ reqs[k].url = TraceDataUrl
        /\ reqs[k].role = role
        /\ reqs[k].result = "returned"}}

(* the text of the last human-authored message of a turn, None without one *)
HumanAt(turn) == {i \in 1..Len(turn) : turn[i].type = "human"}
LastHumanText(turn) ==
    IF HumanAt(turn) = {} THEN None
    ELSE LET i == CHOOSE k \in HumanAt(turn) : \A j \in HumanAt(turn) : j <= k
         IN  PyStr(turn[i].content)

(* the user message a chat-start call carries, None when it carries none *)
CarriedMessage(messages) ==
    IF messages = <<>> THEN None ELSE LastHumanText(messages[1])

TypeOK ==
    /\ phase \in {"new", "ready", "failed"}
    /\ ncalls \in 0..MaxCalls
    /\ IsHook => Len(http) >= last.pre.nhttp

(* ------------------------------- claims -------------------------------- *)

(* C1: a chat-start call carrying user message m issues a trace_data POST  *)
(* with role "user" and content m exactly when m is not the content of a   *)
(* user POST of this instance that returned before the call; across every  *)
(* hook call saved_user_messages only grows, and it grows by one entry,    *)
(* the content of the one user POST the call issued, which returned.       *)
C1_UserSentIffNotSentBefore ==
    /\ (IsChatStart /\ CarriedMessage(last.arg) /= None) =>
         LET m == CarriedMessage(last.arg) IN
         /\ (LastPosts /= <<>>) <=>
                (m \notin ReturnedContents(EarlierPosts, "user"))
         /\ LastPosts /= <<>> =>
              /\ Len(LastPosts) = 1
              /\ LastPosts[1].url = TraceDataUrl
              /\ LastPosts[1].role = "user"
              /\ LastPosts[1].content = m
    /\ IsHook =>
         /\ IsPrefix(last.pre.su, saved_user_messages)
         /\ saved_user_messages /= last.pre.su =>
              /\ IsChatStart
              /\ Len(LastPosts) = 1
              /\ LastPosts[1].role = "user"
              /\ LastPosts[1].result = "returned"
              /\ saved_user_messages =
                     Append(last.pre.su, LastPosts[1].content)

(* a message whose first POST raised is sent again and then recorded *)
C1_Witness ==
    /\ IsChatStart
    /\ \E i \in 1..last.pre.nhttp :
         /\ http[i].url = TraceDataUrl
         /\ http[i].role = "user"
         /\ http[i].content = CarriedMessage(last.arg)
         /\ http[i].result = "raised"
    /\ Len(LastPosts) = 1
    /\ LastPosts[1].result = "returned"
    /\ saved_user_messages = <<CarriedMessage(last.arg)>>

(* C2: whatever is raised inside one of the four hooks (IndexError on an   *)
(* empty message list or an empty batch, AttributeError / ValueError on a  *)
(* missing tool context, an exception of requests.post) is caught by the   *)
(* hook: nothing propagates to the host.                                   *)
C2_HooksNeverRaise ==
    IsHook => last.propagated = "none"

(* an llm-end call that sent a request and then met an empty batch *)
C2_Witness ==
    /\ IsLlmEnd
    /\ last.logged = "IndexError"
    /\ LastPosts /= <<>>

(* C3: in an llm-end call, when the first-candidate text of batch j is     *)
(* already recorded (before the call, or as the text of an earlier batch   *)
(* of the call), the requests of the call are those of batches before j:   *)
(* nothing is sent or appended for batch j or any later batch.             *)
C3_EarlyStopOnDuplicate ==
    IsLlmEnd =>
      LET gens == last.arg IN
      \A j \in 1..Len(gens) :
         ( /\ gens[j] /= <<>>
           /\ \/ gens[j][1] \in Range(last.pre.sa)
              \/ \E i \in 1..(j - 1) :
                    gens[i] /= <<>> /\ gens[i][1] = gens[j][1] )
         => /\ Len(LastPosts) < j
            /\ \A k \in 1..Len(LastPosts) : LastPosts[k].content = gens[k][1]
            /\ Len(saved_assistant_messages) < Len(last.pre.sa) + j

(* a recorded text in the first batch, a novel text in the second *)
C3_Witness ==
    /\ IsLlmEnd
    /\ Len(last.arg) = 2
    /\ last.arg[1] /= <<>> /\ last.arg[2] /= <<>>
    /\ last.arg[1][1] \in Range(last.pre.sa)
    /\ last.arg[2][1] \notin Range(last.pre.sa)
    /\ LastPosts = <<>>
    /\ saved_assistant_messages = last.pre.sa

(* C4 as claimed: every hook call issues at most one POST. *)
C4_AtMostOnePostPerCall ==
    IsHook => Len(LastPosts) <= 1

(* C4, amended: chat-start and tool-end issue at most one POST, tool-start *)
(* none, llm-end one per generation batch it processes (the k-th POST of   *)
(* the call carries the text of batch k); no hook retries: a call posts no *)
(* content twice and posts nothing after a POST that raised.               *)
C4_OnePostPerBatchNoRetry ==
    /\ (IsChatStart \/ IsToolEnd) => Len(LastPosts) <= 1
    /\ IsToolStart => LastPosts = <<>>
    /\ IsLlmEnd =>
         /\ Len(LastPosts) <= Len(last.arg)
         /\ \A k \in 1..Len(LastPosts) :
               LastPosts[k].content = last.arg[k][1]
         /\ \A i, k \in 1..Len(LastPosts) :
               i /= k => LastPosts[i].content /= LastPosts[k].content
    /\ IsHook =>
         \A k \in 1..(Len(LastPosts) - 1) : LastPosts[k].result = "returned"

(* an llm-end call that issued two POSTs *)
C4_Witness ==
    /\ IsLlmEnd
    /\ Len(LastPosts) = 2

(* C5 as claimed: once chat-start has issued the POST for a message, the   *)
(* message is in saved_user_messages, whether the POST succeeded or not.   *)
C5_RecordedWhateverTheOutcome ==
    (IsChatStart /\ LastPosts /= <<>>) =>
        LastPosts[1].content \in Range(saved_user_messages)

(* C5, amended: the message is recorded exactly when the POST call returns *)
(* (its response is never read); when the POST raises the sequence is left *)
(* as it was.  A chat-start call sends nothing for a recorded message and  *)
(* sends for any other message it carries, one whose POST raised included. *)
C5_RecordedIffPostReturned ==
    /\ (IsChatStart /\ LastPosts /= <<>>) =>
         /\ (LastPosts[1].result = "returned") <=>
                (LastPosts[1].content \in Range(saved_user_messages))
         /\ LastPosts[1].result = "raised" =>
                saved_user_messages = last.pre.su
    /\ (IsChatStart /\ CarriedMessage(last.arg) /= None) =>
         ((LastPosts = <<>>) <=>
              (CarriedMessage(last.arg) \in Range(last.pre.su)))

(* the same message three times: the POST raised, returned, was not sent *)
C5_Witness ==
    /\ IsChatStart
    /\ CarriedMessage(last.arg) /= None
    /\ last.pre.nhttp = 2
    /\ http[1].content = CarriedMessage(last.arg)
    /\ http[1].result = "raised"
    /\ http[2].content = CarriedMessage(last.arg)
    /\ http[2].result = "returned"
    /\ http[1].role = "user" /\ http[2].role = "user"
    /\ LastPosts = <<>>

(* C6: a tool-end call with no tool-start before it, or after a tool-start *)
(* whose descriptor had no name, logs an error, sends nothing and returns. *)
C6_ToolEndWithoutContext ==
    ( /\ IsToolEnd
      /\ \/ ~last_tool_start.called
         \/ "name" \notin DOMAIN last_tool_start.serialized )
    => /\ LastPosts = <<>>
       /\ last.logged /= "none"
       /\ last.propagated = "none"

(* tool-end after a tool-start whose descriptor had no name *)
C6_Witness ==
    /\ IsToolEnd
    /\ last_tool_start.called
    /\ "name" \notin DOMAIN last_tool_start.serialized
    /\ last.logged = "ValueError"
    /\ LastPosts = <<>>

(* C7: tool-end leaves the stored tool context as it was, and every        *)
(* tool-end call after a tool-start with a name sends one track_event with *)
(* the name and inputs of that tool-start and the output of this call, so  *)
(* consecutive tool-end calls resend the same name and inputs.             *)
C7_ToolEndKeepsContext ==
    /\ IsToolEnd => (tool_name = last.pre.tn /\ tool_inputs = last.pre.ti)
    /\ ( /\ IsToolEnd
         /\ last_tool_start.called
         /\ "name" \in DOMAIN last_tool_start.serialized )
       => /\ Len(LastPosts) = 1
          /\ LastPosts[1].url = TrackEventUrl
          /\ LastPosts[1].name = last_tool_start.serialized.name
          /\ LastPosts[1].properties =
                 [inputs |-> last_tool_start.inputs, output |-> last.arg]

(* tool-start, tool-end, tool-end: the second request repeats the name and *)
(* inputs of the first and carries another output                          *)
C7_Witness ==
    /\ IsToolEnd
    /\ ncalls = 3
    /\ Len(http) = 2
    /\ last.pre.nhttp = 1
    /\ http[1].url = TrackEventUrl /\ http[2].url = TrackEventUrl
    /\ http[1].name = http[2].name
    /\ http[1].properties.inputs = http[2].properties.inputs
    /\ http[1].properties.inputs /= None
    /\ http[1].properties.output /= http[2].properties.output

(* C8: a chat-start call whose first turn holds no human-authored message  *)
(* sends nothing and leaves both de-duplication sequences as they were.    *)
C8_NoHumanNoEffect ==
    ( /\ IsChatStart
      /\ last.arg /= <<>>
      /\ HumanAt(last.arg[1]) = {} )
    => /\ LastPosts = <<>>
       /\ saved_user_messages = last.pre.su
       /\ saved_assistant_messages = last.pre.sa

(* a first turn of non-human messages only, a human message in a later turn *)
C8_Witness ==
    /\ IsChatStart
    /\ Len(last.arg) = 2
    /\ last.arg[1] /= <<>>
    /\ HumanAt(last.arg[1]) = {}
    /\ HumanAt(last.arg[2]) /= {}
    /\ LastPosts = <<>>

(* C9: on a fresh handler with user_id "u1" and trace_id "t1", the calls   *)
(* chat-start("hello"), llm-end("hi there"), chat-start("hello") issue one *)
(* user POST for "hello", then one assistant POST for "hi there", then,    *)
(* the user POST having returned, nothing: the outbound trace is those two *)
(* requests in that order.                                                 *)
HelloChat == <<<<Human(StrContent("hello"))>>>>
HiThereResult == <<<<"hi there">>>>
IsTraceData(req, role, content) ==
    /\ req.url = TraceDataUrl
    /\ req.user_id = "u1" /\ req.trace_id = "t1"
    /\ req.role = role /\ req.content = content

C9_EndToEnd ==
    /\ (ncalls = 1 /\ IsChatStart /\ last.arg = HelloChat) =>
         /\ Len(http) = 1
         /\ IsTraceData(http[1], "user", "hello")
    /\ ( /\ ncalls = 2 /\ IsLlmEnd /\ last.arg = HiThereResult
         /\ last.pre.nhttp = 1
         /\ IsTraceData(http[1], "user", "hello") ) =>
         /\ Len(http) = 2
         /\ IsTraceData(http[2], "assistant", "hi there")
    /\ ( /\ ncalls = 3 /\ IsChatStart /\ last.arg = HelloChat
         /\ last.pre.nhttp = 2
         /\ IsTraceData(http[1], "user", "hello")
         /\ http[1].result = "returned"
         /\ IsTraceData(http[2], "assistant", "hi there") ) =>
         Len(http) = 2

(* the state after the third call of the scenario *)
C9_Witness ==
    /\ ncalls = 3 /\ IsChatStart /\ last.arg = HelloChat
    /\ Len(http) = 2
    /\ IsTraceData(http[1], "user", "hello")
    /\ IsTraceData(http[2], "assistant", "hi there")
    /\ http[1].result = "returned" /\ http[2].result = "returned"
    /\ saved_user_messages = <<"hello">>
    /\ saved_assistant_messages = <<"hi there">>

(* C10: construction raises the validation error exactly when user_id or   *)
(* trace_id is None or empty; otherwise the handler is ready, holds the    *)
(* two ids, and both de-duplication sequences are empty.                   *)
C10_ConstructionFailsIffIdMissing ==
    last.hook = "__init__" =>
       LET uid == last.arg[1]
           tid == last.arg[2]
           missing == uid \in {None, ""} \/ tid \in {None, ""}
       IN  /\ (last.propagated = "ValueError") <=> missing
           /\ (phase = "failed") <=> missing
           /\ ~missing =>
                /\ phase = "ready"
                /\ user_id = uid /\ trace_id = tid
                /\ saved_user_messages = <<>>
                /\ saved_assistant_messages = <<>>

(* a user_id with an empty trace_id *)
C10_Witness ==
    /\ last.hook = "__init__"
    /\ last.arg[1] = "u1"
    /\ last.arg[2] = ""
    /\ last.propagated = "ValueError"
    /\ phase = "failed"

(* C11 as claimed: every track_event request carries a non-empty tool name, *)
(* and a tool-end call whose pending name is absent or empty logs an error  *)
(* and sends nothing.                                                       *)
C11_ToolNameNonEmpty ==
    /\ \A i \in 1..Len(http) :
          http[i].url = TrackEventUrl => http[i].name \notin {None, ""}
    /\ (IsToolEnd /\ last.pre.tn \in {Unset, None, ""}) =>
          /\ LastPosts = <<>>
          /\ last.logged /= "none"
          /\ last.propagated = "none"

(* C12: tool-start overwrites the pending slot with the name of its        *)
(* descriptor (None when it has none) and its inputs, whatever was pending, *)
(* and raises nothing; every track_event request of a tool-end call holds  *)
(* the name and inputs of the most recent tool-start before it and the     *)
(* output of that call, and no tool-end sends without such a tool-start.   *)
C12_SlotIsLastToolStart ==
    /\ IsToolStart =>
         /\ last.logged = "none" /\ last.propagated = "none"
         /\ tool_inputs = last.arg[2]
         /\ tool_name = IF "name" \in DOMAIN last.arg[1]
                        THEN last.arg[1].name ELSE None
    /\ (IsToolEnd /\ LastPosts /= <<>>) =>
         /\ last_tool_start.called
         /\ "name" \in DOMAIN last_tool_start.serialized
         /\ \A k \in 1..Len(LastPosts) :
              /\ LastPosts[k].url = TrackEventUrl
              /\ LastPosts[k].name = last_tool_start.serialized.name
              /\ LastPosts[k].properties.inputs = last_tool_start.inputs
              /\ LastPosts[k].properties.output = last.arg

(* a tool-start over a pending context of another tool and other inputs *)
C12_Witness ==
    /\ IsToolStart
    /\ last.pre.tn = "calc" /\ last.pre.ti = "x=1"
    /\ tool_name = "search" /\ tool_inputs = None

(* the first-candidate texts of batches 1..n *)
FirstTexts(gens, n) == [k \in 1..n |-> gens[k][1]]

(* batches 1..n have pairwise distinct first texts, none of them in saved *)
NovelPrefix(gens, n, saved) ==
    /\ \A k \in 1..n : gens[k][1] \notin Range(saved)
    /\ \A i, k \in 1..n : i /= k => gens[i][1] /= gens[k][1]

(* C13: in an llm-end call whose batches are non-empty and in which no     *)
(* POST raises, with j the length of the longest prefix of batches whose   *)
(* first-candidate texts are pairwise distinct and not recorded when the   *)
(* call starts, the requests of the call are the assistant trace_data      *)
(* requests for the first texts of batches 1..j in that order, those texts *)
(* are appended in that order, and nothing else is sent or appended.       *)
C13_LongestNovelPrefix ==
    ( /\ IsLlmEnd
      /\ \A k \in 1..Len(last.arg) : last.arg[k] /= <<>>
      /\ \A k \in 1..Len(LastPosts) : LastPosts[k].result = "returned" )
    => LET gens == last.arg
           j == CHOOSE n \in 0..Len(gens) :
                   /\ NovelPrefix(gens, n, last.pre.sa)
                   /\ \A m \in (n + 1)..Len(gens) :
                         ~NovelPrefix(gens, m, last.pre.sa)
       IN  /\ Len(LastPosts) = j
           /\ \A k \in 1..j :
                /\ LastPosts[k].url = TraceDataUrl
                /\ LastPosts[k].role = "assistant"
                /\ LastPosts[k].content = gens[k][1]
           /\ saved_assistant_messages = last.pre.sa \o FirstTexts(gens, j)

(* two novel batches, one of them with a second candidate that is not sent *)
C13_Witness ==
    /\ IsLlmEnd
    /\ Len(last.arg) = 2
    /\ Len(last.arg[1]) = 2 /\ Len(last.arg[2]) = 1
    /\ last.arg[1][2] = last.arg[2][1]
    /\ last.pre.sa = <<>>
    /\ Len(LastPosts) = 2
    /\ saved_assistant_messages = <<last.arg[1][1], last.arg[2][1]>>

(* C15: every hook call leaves each de-duplication sequence with its       *)
(* earlier value as a prefix (nothing is removed, reordered or cleared);   *)
(* chat-start leaves the assistant sequence as it was, llm-end the user    *)
(* sequence, tool-start and tool-end both.                                 *)
C15_AppendOnlyPerRole ==
    IsHook =>
      /\ IsPrefix(last.pre.su, saved_user_messages)
      /\ IsPrefix(last.pre.sa, saved_assistant_messages)
      /\ IsChatStart => saved_assistant_messages = last.pre.sa
      /\ IsLlmEnd => saved_user_messages = last.pre.su
      /\ (IsToolStart \/ IsToolEnd) =>
            /\ saved_user_messages = last.pre.su
            /\ saved_assistant_messages = last.pre.sa

(* a second user message is appended behind the first, the assistant       *)
(* sequence staying as it was                                              *)
C15_Witness ==
    /\ IsChatStart
    /\ Len(last.pre.su) = 1
    /\ Len(saved_user_messages) = 2
    /\ saved_user_messages[1] = last.pre.su[1]
    /\ saved_assistant_messages /= <<>>
    /\ saved_assistant_messages = last.pre.sa

(* C16: chat-start reads the first turn only: the message it extracts (and *)
(* sends, when it sends) is the text of the last human-authored message of *)
(* messages[0], None without one, whatever later turns hold and whatever   *)
(* follows that message in the turn.                                       *)
C16_LastHumanOfFirstTurn ==
    (IsChatStart /\ last.arg /= <<>>) =>
       LET turn == last.arg[1]
           humans == {i \in 1..Len(turn) : turn[i].type = "human"}
           expected ==
               IF humans = {} THEN None
               ELSE PyStr(turn[CHOOSE i \in humans :
                                  \A k \in humans : k <= i].content)
       IN  /\ user_message = expected
           /\ \A k \in 1..Len(LastPosts) : LastPosts[k].content = expected

(* two human messages in the first turn: the later one is sent *)
C16_Witness ==
    /\ IsChatStart
    /\ Len(last.arg) = 1
    /\ Len(last.arg[1]) = 2
    /\ last.arg[1][1].type = "human" /\ last.arg[1][2].type = "human"
    /\ PyStr(last.arg[1][1].content) /= PyStr(last.arg[1][2].content)
    /\ Len(LastPosts) = 1
    /\ LastPosts[1].content = PyStr(last.arg[1][2].content)

NoRepeat(s) == \A i, k \in 1..Len(s) : i /= k => s[i] /= s[k]

(* C17: with hook calls running one after the other, neither               *)
(* de-duplication sequence ever holds the same content twice.              *)
C17_NoRepeatedContent ==
    phase = "ready" =>
       /\ NoRepeat(saved_user_messages)
       /\ NoRepeat(saved_assistant_messages)

(* an llm-end call with the same first text in both batches, after a call  *)
(* in which the POST for that text raised: the text is recorded once       *)
C17_Witness ==
    /\ IsLlmEnd
    /\ Len(last.arg) = 2
    /\ last.arg[1] /= <<>> /\ last.arg[2] /= <<>>
    /\ last.arg[1][1] = last.arg[2][1]
    /\ \E i \in 1..last.pre.nhttp :
          /\ http[i].url = TraceDataUrl
          /\ http[i].role = "assistant"
          /\ http[i].content = last.arg[1][1]
          /\ http[i].result = "raised"
    /\ Len(LastPosts) = 1
    /\ saved_assistant_messages = <<last.arg[1][1]>>

(* C18: a content whose POST raised is not recorded.  In chat-start the    *)
(* user sequence is left as it was, and a chat-start call carrying a       *)
(* message whose every earlier POST raised sends it again.  In llm-end,    *)
(* with the POST of batch k raising, the texts of batches 1..k-1 are the   *)
(* ones appended, the text of batch k is not recorded, and the k requests  *)
(* for batches 1..k are all the call sends.                                *)
C18_RaisedPostNotRecorded ==
    /\ ( /\ IsChatStart
         /\ LastPosts /= <<>>
         /\ LastPosts[Len(LastPosts)].result = "raised" ) =>
            /\ saved_user_messages = last.pre.su
            /\ LastPosts[Len(LastPosts)].content
                  \notin Range(saved_user_messages)
    /\ ( /\ IsChatStart
         /\ CarriedMessage(last.arg) /= None
         /\ \A i \in 1..last.pre.nhttp :
              ( /\ http[i].url = TraceDataUrl
                /\ http[i].role = "user"
                /\ http[i].content = CarriedMessage(last.arg) )
              => http[i].result = "raised" ) =>
            /\ Len(LastPosts) = 1
            /\ LastPosts[1].content = CarriedMessage(last.arg)
    /\ ( /\ IsLlmEnd
         /\ LastPosts /= <<>>
         /\ LastPosts[Len(LastPosts)].result = "raised" ) =>
            LET k == Len(LastPosts) IN
            /\ \A i \in 1..k : LastPosts[i].content = last.arg[i][1]
            /\ saved_assistant_messages =
                   last.pre.sa \o [i \in 1..(k - 1) |-> last.arg[i][1]]
            /\ last.arg[k][1] \notin Range(saved_assistant_messages)

(* the POST of the second of two batches raises: the first text is kept *)
C18_Witness ==
    /\ IsLlmEnd
    /\ Len(LastPosts) = 2
    /\ LastPosts[1].result = "returned"
    /\ LastPosts[2].result = "raised"
    /\ saved_assistant_messages = Append(last.pre.sa, last.arg[1][1])

(* the contents, in order, of the trace_data POSTs of a role that returned *)
RECURSIVE ReturnedInOrder(_, _)
ReturnedInOrder(reqs, role) ==
    IF reqs = <<>> THEN <<>>
    ELSE LET r == Head(reqs) IN
         IF r.url = TraceDataUrl /\ r.role = role /\ r.result = "returned"
         THEN <<r.content>> \o ReturnedInOrder(Tail(reqs), role)
         ELSE ReturnedInOrder(Tail(reqs), role)

(* C19: each de-duplication sequence is the sequence of contents of the    *)
(* trace_data POSTs of its role that returned, in the order they were      *)
(* sent; the check is per role: chat-start sends any message it carries    *)
(* that is not in the user sequence, and llm-end sends the first text of a *)
(* non-empty first batch that is not in the assistant sequence, whether or *)
(* not the other role's sequence holds that content.                       *)
C19_SequencesAreReturnedPosts ==
    /\ phase = "ready" =>
         /\ saved_user_messages = ReturnedInOrder(http, "user")
         /\ saved_assistant_messages = ReturnedInOrder(http, "assistant")
    /\ ( /\ IsChatStart
         /\ CarriedMessage(last.arg) /= None
         /\ CarriedMessage(last.arg) \notin Range(last.pre.su) ) =>
            /\ LastPosts /= <<>>
            /\ LastPosts[1].role = "user"
    /\ ( /\ IsLlmEnd
         /\ last.arg /= <<>>
         /\ last.arg[1] /= <<>>
         /\ last.arg[1][1] \notin Range(last.pre.sa) ) =>
            /\ LastPosts /= <<>>
            /\ LastPosts[1].role = "assistant"

(* a user message that the assistant sequence already holds is sent *)
C19_Witness ==
    /\ IsChatStart
    /\ CarriedMessage(last.arg) \in Range(last.pre.sa)
    /\ last.pre.su = <<>>
    /\ Len(LastPosts) = 1
    /\ LastPosts[1].result = "returned"
    /\ saved_user_messages = <<CarriedMessage(last.arg)>>

(* C14: when the host calls the hooks from several threads, two            *)
(* invocations of on_chat_model_start (or of on_llm_end) with the same     *)
(* content can both pass the membership check before either appends, and   *)
(* the content is then sent twice and recorded twice; a content is         *)
(* recorded twice in a sequence only if two invocations of that sequence's *)
(* hook were under way at once.                                            *)
C14_RepeatOnlyWhenOverlapping ==
    /\ ~NoRepeat(saved_user_messages) =>
          "on_chat_model_start" \in overlapped
    /\ ~NoRepeat(saved_assistant_messages) => "on_llm_end" \in overlapped

C14_Witness ==
    /\ saved_user_messages = <<"hello", "hello">>
    /\ Len(http) = 2
    /\ \A k \in 1..2 : /\ http[k].role = "user"
                        /\ http[k].content = "hello"
                        /\ http[k].result = "returned"
    /\ "on_chat_model_start" \in overlapped
====
